---- MODULE Spec2Model ----
(***************************************************************************)
(* Voxel classification of porate (src/pore/voxel.py): the occupancy grid  *)
(* is split into protein and solvent voxels, every solvent voxel is tested *)
(* for occlusion along the six axis directions (buried / exposed), the     *)
(* buried voxels are agglomerated by breadth-first search into putative    *)
(* pores, and each putative pore is reported as a pore or as a cavity.     *)
(*                                                                         *)
(* Conventions.  A voxel is a triple <<x, y, z>> of 0-based coordinates.   *)
(* A Python tuple of three coordinate arrays is one sequence of voxels;    *)
(* Python index p of such an array is element p + 1 of the sequence.  The  *)
(* list occluded_dimensions[0..5] is the sequence occluded_dimensions of   *)
(* length 6, Python position b being element b + 1.  A Python set is a     *)
(* set, and set.pop() is a choice of any element of it.                    *)
(***************************************************************************)
EXTENDS Integers, Sequences, FiniteSets, TLC

\* ------------------------------------------------------------------ bounds

\* Input family "plane": every occupancy grid of PlaneLen x 3 x 1 voxels.
PlaneLen == 3

\* Input family "line": every labelling (buried / exposed / neither) of a row
\* of LineLen voxels, handed directly to get_pores_and_cavities.
LineLen == 8

\* Input family "strip": every such labelling of a StripLen x 2 sheet.
StripLen == 3

\* --------------------------------------------------------------- constants

\* pore/constants.py: edge length of a voxel, and the number of occluded
\* directions at which the matched-pair rule of is_buried applies.
VOXEL_SIZE == 1

OCCLUDED_DIMENSION_LIMIT == 4

VOXEL_VOLUME == VOXEL_SIZE * VOXEL_SIZE * VOXEL_SIZE

\* ----------------------------------------------------------------- helpers

Range(s) == {s[p] : p \in DOMAIN s}

Abs(n) == IF n < 0 THEN -n ELSE n

SeqMin(s) == CHOOSE m \in Range(s) : \A n \in Range(s) : m <= n

SeqMax(s) == CHOOSE m \in Range(s) : \A n \in Range(s) : m >= n

\* The voxel with linear index l in a grid of dimensions d (C order).
Unravel(l, d) == << l \div (d[2] * d[3]), (l \div d[3]) % d[2], l % d[3] >>

\* All voxels of the grid in C order: the order numpy.nonzero reports them in.
GridVoxels(d) == [l \in 1..(d[1] * d[2] * d[3]) |-> Unravel(l - 1, d)]

\* numpy.nonzero(array) and numpy.nonzero(array == 0).
Nonzero(array, d) == SelectSeq(GridVoxels(d), LAMBDA v : array[v] # 0)

NonzeroOfZeroTest(array, d) == SelectSeq(GridVoxels(d), LAMBDA v : array[v] = 0)

\* ------------------------------------------------------- voxel.py functions

get_single_voxel(voxels, index) == voxels[index + 1]

\* line 242: the linear index of one voxel.
LinearIndex(voxel, grid_dimensions) ==
    voxel[1] * grid_dimensions[2] * grid_dimensions[3]
        + voxel[2] * grid_dimensions[3] + voxel[3]

compute_voxel_indices(voxels, grid_dimensions) ==
    { LinearIndex(voxels[p], grid_dimensions) : p \in DOMAIN voxels }

VoxelGroup(voxels, indices, voxel_type) ==
    [ voxels |-> voxels, indices |-> indices, num_voxels |-> Cardinality(indices),
      voxel_type |-> voxel_type, volume |-> Cardinality(indices) * VOXEL_VOLUME ]

SolventMutant(array, d) == SelectSeq(GridVoxels(d), LAMBDA v : array[v] = 0 /\ v[1] # 0)

\* line 64: solvent_voxels = np.nonzero(binary_voxel_array == 0)
SolventOf(array, d) == NonzeroOfZeroTest(array, d)

get_protein_and_solvent_voxels(array, d) ==
    LET protein == Nonzero(array, d)
        solvent == SolventOf(array, d)
    IN  << VoxelGroup(protein, compute_voxel_indices(protein, d), "protein"),
           VoxelGroup(solvent, compute_voxel_indices(solvent, d), "solvent") >>

\* The coordinates along axis c of the voxels whose coordinates along axes a
\* and b are va and vb, in the order of the array (the repeated append).
Column(voxels, a, va, b, vb, c) ==
    LET hits == SelectSeq(voxels, LAMBDA v : v[a] = va /\ v[b] = vb)
    IN  [p \in DOMAIN hits |-> hits[p][c]]

\* << z_array, y_array, x_array >>, each indexed by the two other coordinates.
build_planar_voxel_coordinate_arrays(voxels, d) ==
    << [x \in 0..(d[1] - 1) |-> [y \in 0..(d[2] - 1) |-> Column(voxels, 1, x, 2, y, 3)]],
       [x \in 0..(d[1] - 1) |-> [z \in 0..(d[3] - 1) |-> Column(voxels, 1, x, 3, z, 2)]],
       [y \in 0..(d[2] - 1) |-> [z \in 0..(d[3] - 1) |-> Column(voxels, 2, y, 3, z, 1)]] >>

OccludedSwappedMutant(query_voxel, possible_x, possible_y, possible_z) ==
    << IF Len(possible_x) # 0 /\ SeqMax(possible_x) > query_voxel[1] THEN 1 ELSE 0,
       IF Len(possible_x) # 0 /\ SeqMin(possible_x) < query_voxel[1] THEN 1 ELSE 0,
       IF Len(possible_y) # 0 /\ SeqMin(possible_y) < query_voxel[2] THEN 1 ELSE 0,
       IF Len(possible_y) # 0 /\ SeqMax(possible_y) > query_voxel[2] THEN 1 ELSE 0,
       IF Len(possible_z) # 0 /\ SeqMin(possible_z) < query_voxel[3] THEN 1 ELSE 0,
       IF Len(possible_z) # 0 /\ SeqMax(possible_z) > query_voxel[3] THEN 1 ELSE 0 >>

get_occluded_dimensions(query_voxel, possible_x, possible_y, possible_z) ==
    << IF Len(possible_x) # 0 /\ SeqMin(possible_x) < query_voxel[1] THEN 1 ELSE 0,
       IF Len(possible_x) # 0 /\ SeqMax(possible_x) > query_voxel[1] THEN 1 ELSE 0,
       IF Len(possible_y) # 0 /\ SeqMin(possible_y) < query_voxel[2] THEN 1 ELSE 0,
       IF Len(possible_y) # 0 /\ SeqMax(possible_y) > query_voxel[2] THEN 1 ELSE 0,
       IF Len(possible_z) # 0 /\ SeqMin(possible_z) < query_voxel[3] THEN 1 ELSE 0,
       IF Len(possible_z) # 0 /\ SeqMax(possible_z) > query_voxel[3] THEN 1 ELSE 0 >>

\* list.count(1)
CountOnes(occluded_dimensions) ==
    Cardinality({b \in DOMAIN occluded_dimensions : occluded_dimensions[b] = 1})

IsBuriedAnyFourMutant(occluded_dimensions) ==
    CountOnes(occluded_dimensions) >= OCCLUDED_DIMENSION_LIMIT

IsBuriedAllSixMutant(occluded_dimensions) ==
    CountOnes(occluded_dimensions) > OCCLUDED_DIMENSION_LIMIT + 1

is_buried(occluded_dimensions) ==
    IF CountOnes(occluded_dimensions) > OCCLUDED_DIMENSION_LIMIT THEN TRUE
    ELSE IF CountOnes(occluded_dimensions) = OCCLUDED_DIMENSION_LIMIT
         THEN IF occluded_dimensions[1] = 0 /\ occluded_dimensions[2] = 0 THEN TRUE
              ELSE IF occluded_dimensions[3] = 0 /\ occluded_dimensions[4] = 0 THEN TRUE
              ELSE IF occluded_dimensions[5] = 0 /\ occluded_dimensions[6] = 0 THEN TRUE
              ELSE FALSE
         ELSE FALSE

IsNeighborDiagonalMutant(voxel_one, voxel_two) ==
    /\ voxel_one # voxel_two
    /\ \A dimension \in 1..3 : Abs(voxel_one[dimension] - voxel_two[dimension]) <= 1

is_neighbor_voxel(voxel_one, voxel_two) ==
    Abs(voxel_one[1] - voxel_two[1]) + Abs(voxel_one[2] - voxel_two[2])
        + Abs(voxel_one[3] - voxel_two[3]) = 1

\* is_pore, lines 281-287: the putative pore voxels in direct contact with an
\* exposed voxel.
direct_surface_indices(putative_pore_indices, buried_voxels, exposed_voxels) ==
    { putative_pore_index \in putative_pore_indices :
        \E exposed_voxel_index \in 0..(Len(exposed_voxels) - 1) :
            is_neighbor_voxel(get_single_voxel(buried_voxels, putative_pore_index),
                              get_single_voxel(exposed_voxels, exposed_voxel_index)) }

NeighborSurfaceNoneMutant(putative_pore_indices, direct, buried_voxels) == {}

\* is_pore, lines 292-299: the other putative pore voxels next to those.
neighbor_surface_indices(putative_pore_indices, direct, buried_voxels) ==
    { putative_pore_index \in putative_pore_indices \ direct :
        \E surface_index \in direct :
            is_neighbor_voxel(get_single_voxel(buried_voxels, surface_index),
                              get_single_voxel(buried_voxels, putative_pore_index)) }

\* is_pore, line 302.
SurfaceIndices(putative_pore_indices, buried_voxels, exposed_voxels) ==
    LET direct == direct_surface_indices(putative_pore_indices, buried_voxels, exposed_voxels)
    IN  direct \cup neighbor_surface_indices(putative_pore_indices, direct, buried_voxels)

RemainingAllMutant(buried_indices, agglomerated) == buried_indices

RemainingSwappedMutant(buried_indices, agglomerated) == agglomerated \ buried_indices

\* get_pores_and_cavities, line 333.
RemainingIndices(buried_indices, agglomerated) == buried_indices \ agglomerated

\* get_pores_and_cavities, lines 343-355 and 358-370.  The coordinate arrays of
\* the group are filled by iterating the set putative_pore_indices, whose order
\* Python leaves open: the group's voxels are kept as the set of those voxels.
PutativeGroup(putative_pore_indices, buried_voxels, grid_dimensions, voxel_type) ==
    LET group_voxels ==
            { get_single_voxel(buried_voxels, index) : index \in putative_pore_indices }
    IN  VoxelGroup(group_voxels,
                   { LinearIndex(v, grid_dimensions) : v \in group_voxels },
                   voxel_type)

\* ------------------------------------------ filtering, sorting, summarising
\* pore/utils.py and pore/types.py, used by annotate_pdb_structure
\* (src/pore/pore.py, lines 45-79).

\* VoxelGroup.axial_lengths: per axis, (max - min + 1) voxel edges.
axial_lengths(group) ==
    [ a \in 1..3 |->
        LET along == { v[a] : v \in group.voxels }
            low == CHOOSE m \in along : \A n \in along : m <= n
            high == CHOOSE m \in along : \A n \in along : m >= n
        IN  (high - low + 1) * VOXEL_SIZE ]

\* utils.filter_voxelgroups_by_volume with min_volume = None: the ids of the
\* groups that hold at least min_voxels voxels.
filter_voxelgroups_by_volume(groups, min_voxels) ==
    { k \in DOMAIN groups : groups[k].num_voxels >= min_voxels }

\* The place of group k among the kept ones: descending volume, ties broken by
\* ascending original id.
SortedPlace(groups, kept, k) ==
    Cardinality({ j \in kept :
        \/ groups[j].volume > groups[k].volume
        \/ groups[j].volume = groups[k].volume /\ j < k })

\* utils.sort_voxelgroups_by_volume over the kept groups: new id -> group.
sort_voxelgroups_by_volume(groups, kept) ==
    [ place \in 0..(Cardinality(kept) - 1) |->
        groups[CHOOSE k \in kept : SortedPlace(groups, kept, k) = place] ]

RECURSIVE SumVolumes(_, _)
SumVolumes(groups, ids) ==
    IF ids = {} THEN 0
    ELSE LET k == CHOOSE j \in ids : TRUE
         IN  groups[k].volume + SumVolumes(groups, ids \ {k})

\* utils.get_volume_summary(groups, "total") and (groups, "max").
get_volume_summary_total(groups) == SumVolumes(groups, DOMAIN groups)

get_volume_summary_max(groups) ==
    IF DOMAIN groups = {} THEN 0
    ELSE LET volumes == { groups[k].volume : k \in DOMAIN groups }
         IN  CHOOSE m \in volumes : \A n \in volumes : m >= n

\* The Annotation of annotate_pdb_structure, lines 58-79, for the pores and
\* the cavities (this version of voxel.py fills no hubs and no pockets).
Annotation(sorted_pore_groups, sorted_cavity_groups) ==
    [ total_pore_volume |-> get_volume_summary_total(sorted_pore_groups),
      total_cavity_volume |-> get_volume_summary_total(sorted_cavity_groups),
      largest_pore_volume |-> get_volume_summary_max(sorted_pore_groups),
      largest_cavity_volume |-> get_volume_summary_max(sorted_cavity_groups),
      num_pores |-> Cardinality(DOMAIN sorted_pore_groups),
      num_cavities |-> Cardinality(DOMAIN sorted_cavity_groups),
      pore_volumes |-> [ k \in DOMAIN sorted_pore_groups |-> sorted_pore_groups[k].volume ],
      cavity_volumes |-> [ k \in DOMAIN sorted_cavity_groups |-> sorted_cavity_groups[k].volume ],
      pore_dimensions |-> [ k \in DOMAIN sorted_pore_groups |->
                              axial_lengths(sorted_pore_groups[k]) ],
      cavity_dimensions |-> [ k \in DOMAIN sorted_cavity_groups |->
                                axial_lengths(sorted_cavity_groups[k]) ] ]

\* ------------------------------------------------------------------- inputs

VoxelSet(d) == Range(GridVoxels(d))

\* Family "plane".
PlaneDims == << PlaneLen, 3, 1 >>

\* Family "cross": a 3 x 3 x 3 grid whose protein voxels are among the six
\* face centres, so that the centre voxel meets every occlusion vector.
CrossDims == << 3, 3, 3 >>

FaceCentres ==
    { << 0, 1, 1 >>, << 2, 1, 1 >>, << 1, 0, 1 >>, << 1, 2, 1 >>, << 1, 1, 0 >>, << 1, 1, 2 >> }

CrossArrays ==
    { [v \in VoxelSet(CrossDims) |-> IF v \in on THEN 1 ELSE 0] : on \in SUBSET FaceCentres }

\* The occupancy grid with the given empty voxels and protein everywhere else.
BlockExcept(d, empty) == [v \in VoxelSet(d) |-> IF v \in empty THEN 0 ELSE 1]

\* 3 x 3 x 3 block of protein with an empty centre.
HollowDims == << 3, 3, 3 >>

HollowArray == BlockExcept(HollowDims, { << 1, 1, 1 >> })

\* 5 x 5 x 5 block of protein with a straight 1 x 1 tunnel along z.
TunnelDims == << 5, 5, 5 >>

TunnelVoxels == { << 2, 2, k >> : k \in 0..4 }

TunnelArray == BlockExcept(TunnelDims, TunnelVoxels)

\* 3 x 3 x 3 block with an empty centre and the face x = 2 removed: the grid is
\* the bounding box of what is left, 2 x 3 x 3, and the centre is << 1, 1, 1 >>.
FaceRemovedDims == << 2, 3, 3 >>

FaceRemovedArray == BlockExcept(FaceRemovedDims, { << 1, 1, 1 >> })

\* 5 x 5 x 5 block with a tunnel entering on the face z = 0, bending at
\* << 2, 2, 2 >> and leaving on the face x = 4.
EllDims == << 5, 5, 5 >>

EllBend == << 2, 2, 2 >>

EllVoxels == { << 2, 2, 0 >>, << 2, 2, 1 >>, EllBend, << 3, 2, 2 >>, << 4, 2, 2 >> }

EllArray == BlockExcept(EllDims, EllVoxels)

ScenarioInputs ==
    { << HollowDims, HollowArray >>, << TunnelDims, TunnelArray >>,
      << FaceRemovedDims, FaceRemovedArray >>, << EllDims, EllArray >> }

PipelineInputs ==
    { << PlaneDims, a >> : a \in [VoxelSet(PlaneDims) -> {0, 1}] }
        \cup { << CrossDims, a >> : a \in CrossArrays }
        \cup ScenarioInputs

\* Families "line" and "strip": buried and exposed voxel groups given directly.
LineDims == << LineLen, 1, 1 >>

StripDims == << StripLen, 2, 1 >>

DirectInputs ==
    { << LineDims, l >> : l \in [VoxelSet(LineDims) -> {"buried", "exposed", "none"}] }
        \cup { << StripDims, l >> : l \in [VoxelSet(StripDims) -> {"buried", "exposed", "none"}] }

Labelled(d, labels, kind) ==
    LET voxels == SelectSeq(GridVoxels(d), LAMBDA v : labels[v] = kind)
    IN  VoxelGroup(voxels, compute_voxel_indices(voxels, d), kind)

EmptyGroup(kind) == VoxelGroup(<< >>, {}, kind)

\* -------------------------------------------------------------------- state

VARIABLES
    entry,                  \* "pipeline": from the occupancy grid; "direct": get_pores_and_cavities alone
    pc,                     \* position in the analysis
    voxel_grid_dimensions,  \* voxel_grid.x_y_z
    binary_voxel_array,     \* the occupancy grid: voxel -> 0 / 1
    protein_voxels,         \* VoxelGroup
    solvent_voxels,         \* VoxelGroup
    planar,                 \* << z_array, y_array, x_array >>
    i,                      \* loop index of get_exposed_and_buried_voxels
    query_voxel,            \* the solvent voxel tested last
    occluded_dimensions,    \* its occlusion vector
    buried_list,            \* buried_voxels of get_exposed_and_buried_voxels (line 165)
    exposed_list,           \* exposed_voxels of get_exposed_and_buried_voxels (line 166)
    exposed_voxels,         \* VoxelGroup
    buried_voxels,          \* VoxelGroup
    buried_indices,         \* get_pores_and_cavities: positions in buried_voxels.voxels
    agglomerated_indices,
    pores, pore_id,         \* dict id -> VoxelGroup, next id
    cavities, cavity_id,
    putative_pore_indices,
    surface_indices,        \* is_pore
    caller,                 \* who runs breadth_first_search: "labelling" or "surface"
    searchable_indices, queue_indices, neighbor_indices,
    utils_VOXEL_SIZE,       \* the module-level VOXEL_SIZE of pore.utils
    min_voxels,             \* annotate_pdb_structure: the size filter
    sorted_pores,           \* pores after filtering and sorting: new id -> VoxelGroup
    sorted_cavities,
    annotation              \* the Annotation returned

inputVars == << entry, voxel_grid_dimensions, binary_voxel_array >>

splitVars == << protein_voxels, solvent_voxels >>

searchVars == << planar, i, query_voxel, occluded_dimensions, buried_list, exposed_list >>

groupVars == << exposed_voxels, buried_voxels >>

resultVars == << pores, pore_id, cavities, cavity_id >>

loopVars == << buried_indices, agglomerated_indices, putative_pore_indices, surface_indices >>

bfsVars == << caller, searchable_indices, queue_indices, neighbor_indices >>

configVars == << utils_VOXEL_SIZE >>

annotVars == << min_voxels, sorted_pores, sorted_cavities, annotation >>

vars == << pc, inputVars, configVars, annotVars, splitVars, searchVars, groupVars, resultVars, loopVars, bfsVars >>

NoSearch ==
    /\ planar = << >>
    /\ i = 0
    /\ query_voxel = << >>
    /\ occluded_dimensions = << >>
    /\ buried_list = << >>
    /\ exposed_list = << >>

NoLoop ==
    /\ buried_indices = {}
    /\ agglomerated_indices = {}
    /\ putative_pore_indices = {}
    /\ surface_indices = {}
    /\ pores = << >>
    /\ pore_id = 0
    /\ cavities = << >>
    /\ cavity_id = 0
    /\ caller = "none"
    /\ searchable_indices = {}
    /\ queue_indices = {}
    /\ neighbor_indices = {}
    /\ min_voxels = 2
    /\ sorted_pores = << >>
    /\ sorted_cavities = << >>
    /\ annotation = << >>

InitPipeline ==
    /\ entry = "pipeline"
    /\ pc = "main"
    /\ utils_VOXEL_SIZE = VOXEL_SIZE
    /\ \E input \in PipelineInputs :
        /\ voxel_grid_dimensions = input[1]
        /\ binary_voxel_array = input[2]
    /\ protein_voxels = EmptyGroup("protein")
    /\ solvent_voxels = EmptyGroup("solvent")
    /\ exposed_voxels = EmptyGroup("exposed")
    /\ buried_voxels = EmptyGroup("buried")
    /\ NoSearch
    /\ NoLoop

InitDirect ==
    /\ entry = "direct"
    /\ utils_VOXEL_SIZE = VOXEL_SIZE
    /\ pc = "pores_cavities"
    /\ binary_voxel_array = << >>
    /\ protein_voxels = EmptyGroup("protein")
    /\ solvent_voxels = EmptyGroup("solvent")
    /\ \E input \in DirectInputs :
        /\ voxel_grid_dimensions = input[1]
        /\ exposed_voxels = Labelled(input[1], input[2], "exposed")
        /\ buried_voxels = Labelled(input[1], input[2], "buried")
    /\ NoSearch
    /\ NoLoop

Init == InitPipeline \/ InitDirect

\* ------------------------------------------------------------------ actions

\* utils.set_resolution: the module-level VOXEL_SIZE of pore.utils is assigned.
\* voxel.py bound its own VOXEL_SIZE and VOXEL_VOLUME when it was imported
\* (lines 15 and 19); no assignment to another module's name reaches them.
set_resolution(resolution) == resolution

\* The edge lengths --resolution can set: the default and a larger one.
Resolutions == { VOXEL_SIZE, VOXEL_SIZE + 1 }

\* main (src/scripts/porate.py), lines 57-69: the resolution of the command
\* line is set before any structure is analysed.
Main ==
    /\ pc = "main"
    /\ \E resolution \in Resolutions : utils_VOXEL_SIZE' = set_resolution(resolution)
    /\ pc' = "split"
    /\ UNCHANGED << inputVars, annotVars, splitVars, searchVars, groupVars, resultVars,
                    loopVars, bfsVars >>

\* annotate_pdb_structure (src/pore/pore.py), line 23: the edge the surface
\* padding uses.
PaddingEdge == utils_VOXEL_SIZE

\* add_voxel_grid, lines 33-35: the edge the voxel grid is built with.
VoxelizationEdge == VOXEL_SIZE

\* get_protein_and_solvent_voxels (lines 55-84).
GetProteinAndSolventVoxels ==
    /\ pc = "split"
    /\ LET split == get_protein_and_solvent_voxels(binary_voxel_array, voxel_grid_dimensions)
       IN  /\ protein_voxels' = split[1]
           /\ solvent_voxels' = split[2]
    /\ pc' = "exposed_buried"
    /\ UNCHANGED << inputVars, configVars, annotVars, searchVars, groupVars, resultVars, loopVars, bfsVars >>

\* get_exposed_and_buried_voxels, lines 165-168: the empty lists and the tables.
BeginExposedBuried ==
    /\ pc = "exposed_buried"
    /\ buried_list' = << >>
    /\ exposed_list' = << >>
    /\ planar' = build_planar_voxel_coordinate_arrays(protein_voxels.voxels, voxel_grid_dimensions)
    /\ i' = 0
    /\ pc' = "searching"
    /\ UNCHANGED << inputVars, configVars, annotVars, splitVars, query_voxel, occluded_dimensions, groupVars,
                    resultVars, loopVars, bfsVars >>

\* get_exposed_and_buried_voxels, lines 170-187: one iteration of the loop.
SearchVoxel ==
    /\ pc = "searching"
    /\ i < Len(solvent_voxels.voxels)
    /\ LET q == get_single_voxel(solvent_voxels.voxels, i)
           z_array == planar[1]
           y_array == planar[2]
           x_array == planar[3]
           occluded == get_occluded_dimensions(q, x_array[q[2]][q[3]],
                                               y_array[q[1]][q[3]], z_array[q[1]][q[2]])
       IN  /\ query_voxel' = q
           /\ occluded_dimensions' = occluded
           /\ IF is_buried(occluded)
              THEN /\ buried_list' = Append(buried_list, q)
                   /\ exposed_list' = exposed_list
              ELSE /\ exposed_list' = Append(exposed_list, q)
                   /\ buried_list' = buried_list
    /\ i' = i + 1
    /\ UNCHANGED << pc, inputVars, configVars, annotVars, splitVars, planar, groupVars, resultVars, loopVars, bfsVars >>

\* get_exposed_and_buried_voxels, lines 189-207: the two groups are returned.
EndExposedBuried ==
    /\ pc = "searching"
    /\ i = Len(solvent_voxels.voxels)
    /\ exposed_voxels' = VoxelGroup(exposed_list,
            compute_voxel_indices(exposed_list, voxel_grid_dimensions), "exposed")
    /\ buried_voxels' = VoxelGroup(buried_list,
            compute_voxel_indices(buried_list, voxel_grid_dimensions), "buried")
    /\ pc' = "pores_cavities"
    /\ UNCHANGED << inputVars, configVars, annotVars, splitVars, searchVars, resultVars, loopVars, bfsVars >>

\* get_pores_and_cavities, lines 325-331.
BeginPoresAndCavities ==
    /\ pc = "pores_cavities"
    /\ buried_indices' = 0..(Len(buried_voxels.voxels) - 1)
    /\ agglomerated_indices' = {}
    /\ pores' = << >>
    /\ pore_id' = 0
    /\ cavities' = << >>
    /\ cavity_id' = 0
    /\ pc' = "loop"
    /\ UNCHANGED << inputVars, configVars, annotVars, splitVars, searchVars, groupVars, putative_pore_indices,
                    surface_indices, bfsVars >>

\* breadth_first_search, lines 252-255, for the given set and caller.
\* pop() on an empty set raises KeyError, which nothing catches.
BeginBreadthFirstSearch(indices, who) ==
    IF indices = {}
    THEN /\ pc' = "error"
         /\ caller' = who
         /\ UNCHANGED << searchable_indices, queue_indices, neighbor_indices >>
    ELSE \E start_index \in indices :
            /\ searchable_indices' = indices \ {start_index}
            /\ queue_indices' = {start_index}
            /\ neighbor_indices' = {start_index}
            /\ caller' = who
            /\ pc' = "bfs"

\* breadth_first_search has returned: its locals are gone.
EndBreadthFirstSearch ==
    /\ searchable_indices' = {}
    /\ queue_indices' = {}
    /\ neighbor_indices' = {}
    /\ caller' = "none"

\* get_pores_and_cavities, lines 332-336: the loop test holds, and the search
\* over the remaining indices starts.
StartSearch ==
    /\ pc = "loop"
    /\ Cardinality(agglomerated_indices) < Cardinality(buried_indices)
    /\ BeginBreadthFirstSearch(RemainingIndices(buried_indices, agglomerated_indices),
                               "labelling")
    /\ UNCHANGED << inputVars, configVars, annotVars, splitVars, searchVars, groupVars, resultVars, loopVars >>

\* breadth_first_search, lines 257-265: one iteration of the while loop.
BfsStep ==
    /\ pc = "bfs"
    /\ Cardinality(queue_indices) > 0
    /\ \E current_index \in queue_indices :
        LET current_voxel == get_single_voxel(buried_voxels.voxels, current_index)
            found == { searched_index \in searchable_indices :
                         is_neighbor_voxel(current_voxel,
                             get_single_voxel(buried_voxels.voxels, searched_index)) }
        IN  /\ queue_indices' = (queue_indices \ {current_index}) \cup found
            /\ neighbor_indices' = neighbor_indices \cup found
            /\ searchable_indices' = searchable_indices \ (neighbor_indices \cup found)
    /\ UNCHANGED << pc, caller, inputVars, configVars, annotVars, splitVars, searchVars, groupVars, resultVars,
                    loopVars >>

\* get_pores_and_cavities, lines 336-342, and is_pore, lines 281-302: the
\* search returns the putative pore, and is_pore collects its surface.
Agglomerate ==
    /\ pc = "bfs"
    /\ caller = "labelling"
    /\ Cardinality(queue_indices) = 0
    /\ putative_pore_indices' = neighbor_indices
    /\ agglomerated_indices' = agglomerated_indices \cup neighbor_indices
    /\ surface_indices' = SurfaceIndices(neighbor_indices, buried_voxels.voxels,
                                         exposed_voxels.voxels)
    /\ EndBreadthFirstSearch
    /\ pc' = "is_pore"
    /\ UNCHANGED << inputVars, configVars, annotVars, splitVars, searchVars, groupVars, resultVars, buried_indices >>

\* What get_pores_and_cavities does with the verdict of is_pore: lines 343-356
\* when it is True, lines 358-371 when it is False.
Record(verdict) ==
    /\ IF verdict
       THEN /\ pores' = (pore_id :> PutativeGroup(putative_pore_indices,
                            buried_voxels.voxels, voxel_grid_dimensions, "pore")) @@ pores
            /\ pore_id' = pore_id + 1
            /\ UNCHANGED << cavities, cavity_id >>
       ELSE /\ cavities' = (cavity_id :> PutativeGroup(putative_pore_indices,
                            buried_voxels.voxels, voxel_grid_dimensions, "cavity")) @@ cavities
            /\ cavity_id' = cavity_id + 1
            /\ UNCHANGED << pores, pore_id >>
    /\ putative_pore_indices' = {}
    /\ surface_indices' = {}
    /\ pc' = "loop"

\* is_pore, lines 303-305: no surface voxel at all, is_pore returns False.
IsPoreNoSurface ==
    /\ pc = "is_pore"
    /\ Cardinality(surface_indices) = 0
    /\ Record(FALSE)
    /\ UNCHANGED << inputVars, configVars, annotVars, splitVars, searchVars, groupVars, buried_indices,
                    agglomerated_indices, bfsVars >>

\* is_pore, line 307: the search over the surface voxels starts.
SurfaceSearch ==
    /\ pc = "is_pore"
    /\ Cardinality(surface_indices) # 0
    /\ BeginBreadthFirstSearch(surface_indices, "surface")
    /\ UNCHANGED << inputVars, configVars, annotVars, splitVars, searchVars, groupVars, resultVars, loopVars >>

\* is_pore, line 308.
SingleSurface(single_surface_indices, surface) ==
    Cardinality(single_surface_indices) = Cardinality(surface)

\* is_pore, lines 308-309: one search reached every surface voxel, False.
SurfaceIsSingle ==
    /\ pc = "bfs"
    /\ caller = "surface"
    /\ Cardinality(queue_indices) = 0
    /\ SingleSurface(neighbor_indices, surface_indices)
    /\ Record(FALSE)
    /\ EndBreadthFirstSearch
    /\ UNCHANGED << inputVars, configVars, annotVars, splitVars, searchVars, groupVars, buried_indices,
                    agglomerated_indices >>

\* is_pore, line 311: some surface voxel was not reached, True.
SurfaceIsSplit ==
    /\ pc = "bfs"
    /\ caller = "surface"
    /\ Cardinality(queue_indices) = 0
    /\ ~ SingleSurface(neighbor_indices, surface_indices)
    /\ Record(TRUE)
    /\ EndBreadthFirstSearch
    /\ UNCHANGED << inputVars, configVars, annotVars, splitVars, searchVars, groupVars, buried_indices,
                    agglomerated_indices >>

\* get_pores_and_cavities, lines 332 and 373: the loop test fails.
ReturnPoresAndCavities ==
    /\ pc = "loop"
    /\ ~ (Cardinality(agglomerated_indices) < Cardinality(buried_indices))
    /\ pc' = "done"
    /\ UNCHANGED << inputVars, configVars, annotVars, splitVars, searchVars, groupVars, resultVars, loopVars, bfsVars >>

\* annotate_pdb_structure (src/pore/pore.py), lines 45-79: the groups are
\* filtered and sorted and the Annotation is built.  min_voxels is the
\* argument of the call (default 2), read here for the first time.
AnnotatePdbStructure ==
    /\ pc = "done"
    /\ \E m \in {1, 2} :
        LET new_pores ==
                sort_voxelgroups_by_volume(pores, filter_voxelgroups_by_volume(pores, m))
            new_cavities ==
                sort_voxelgroups_by_volume(cavities, filter_voxelgroups_by_volume(cavities, m))
        IN  /\ min_voxels' = m
            /\ sorted_pores' = new_pores
            /\ sorted_cavities' = new_cavities
            /\ annotation' = Annotation(new_pores, new_cavities)
    /\ pc' = "annotated"
    /\ UNCHANGED << inputVars, configVars, splitVars, searchVars, groupVars, resultVars, loopVars, bfsVars >>

Next ==
    \/ Main
    \/ GetProteinAndSolventVoxels
    \/ BeginExposedBuried
    \/ SearchVoxel
    \/ EndExposedBuried
    \/ BeginPoresAndCavities
    \/ StartSearch
    \/ BfsStep
    \/ Agglomerate
    \/ IsPoreNoSurface
    \/ SurfaceSearch
    \/ SurfaceIsSingle
    \/ SurfaceIsSplit
    \/ ReturnPoresAndCavities
    \/ AnnotatePdbStructure

Spec == Init /\ [][Next]_vars

\* The interpreter runs the one thread of the analysis until it returns.
FairSpec == Spec /\ WF_vars(Next)

\* ------------------------------------------------- vocabulary of the claims

\* The six voxels at Manhattan distance exactly 1 from v.
SixNeighbours(v) ==
    { << v[1] - 1, v[2], v[3] >>, << v[1] + 1, v[2], v[3] >>,
      << v[1], v[2] - 1, v[3] >>, << v[1], v[2] + 1, v[3] >>,
      << v[1], v[2], v[3] - 1 >>, << v[1], v[2], v[3] + 1 >> }

\* The voxels of S joined to a voxel of reached by a path inside S.
RECURSIVE Grow(_, _)
Grow(S, reached) ==
    LET more == reached \cup { v \in S : SixNeighbours(v) \cap reached # {} }
    IN  IF more = reached THEN reached ELSE Grow(S, more)

\* S is one 6-connected component (the empty set is none).
SixConnected(S) == S # {} /\ \A seed \in S : Grow(S, {seed}) = S

ProteinSet == Range(protein_voxels.voxels)

SolventSet == Range(solvent_voxels.voxels)

ExposedSet == Range(exposed_voxels.voxels)

BuriedSet == Range(buried_voxels.voxels)

PoreGroups == { pores[k] : k \in DOMAIN pores }

CavityGroups == { cavities[k] : k \in DOMAIN cavities }

\* The direct surface set D of a set P of buried voxels, and the extended
\* surface set D'.
DirectSurface(P) == { v \in P : SixNeighbours(v) \cap ExposedSet # {} }

ExtendedSurface(P) ==
    DirectSurface(P) \cup { v \in P : SixNeighbours(v) \cap DirectSurface(P) # {} }

Classified == pc \in {"pores_cavities", "loop", "bfs", "is_pore", "done"}

Tested == pc = "searching" /\ i > 0

\* The pipeline has finished on the given occupancy grid.
Finished(d, array) ==
    /\ entry = "pipeline"
    /\ pc = "done"
    /\ utils_VOXEL_SIZE = 1
    /\ voxel_grid_dimensions = d
    /\ binary_voxel_array = array

\* ------------------------------------------------------------------- claims

\* C1: the groups returned by get_pores_and_cavities, pores and cavities
\* together, are pairwise disjoint and their union is exactly the buried set:
\* every buried voxel is in exactly one returned group, and no returned group
\* holds a voxel that is not buried.
GroupsPartitionBuried ==
    pc = "done" =>
        /\ \A v \in BuriedSet :
             Cardinality({ k \in DOMAIN pores : v \in pores[k].voxels })
               + Cardinality({ k \in DOMAIN cavities : v \in cavities[k].voxels }) = 1
        /\ \A g \in PoreGroups \cup CavityGroups :
             /\ g.voxels \subseteq BuriedSet
             /\ g.indices \subseteq buried_voxels.indices
             /\ g.num_voxels = Cardinality(g.voxels)
        /\ DOMAIN pores = 0..(pore_id - 1)
        /\ DOMAIN cavities = 0..(cavity_id - 1)

GroupsPartitionBuriedWitness ==
    /\ pc = "done"
    /\ Cardinality(DOMAIN pores) >= 1
    /\ Cardinality(DOMAIN cavities) >= 1
    /\ Cardinality(BuriedSet) >= 6

\* C2: every voxel of the grid is in exactly one of protein, exposed, buried:
\* protein and solvent are disjoint and cover the grid, every solvent voxel is
\* in exactly one of exposed and buried, and no protein voxel is in either.
GridPartition ==
    (entry = "pipeline" /\ Classified) =>
        /\ ProteinSet \cup SolventSet = VoxelSet(voxel_grid_dimensions)
        /\ ProteinSet \cap SolventSet = {}
        /\ ProteinSet = { v \in VoxelSet(voxel_grid_dimensions) : binary_voxel_array[v] # 0 }
        /\ ExposedSet \cup BuriedSet = SolventSet
        /\ ExposedSet \cap BuriedSet = {}
        /\ (ExposedSet \cup BuriedSet) \cap ProteinSet = {}
        /\ protein_voxels.num_voxels + exposed_voxels.num_voxels + buried_voxels.num_voxels
             = Cardinality(VoxelSet(voxel_grid_dimensions))
        /\ Len(exposed_voxels.voxels) + Len(buried_voxels.voxels)
             = Cardinality(SolventSet)

GridPartitionWitness ==
    /\ entry = "pipeline"
    /\ pc = "pores_cavities"
    /\ ProteinSet # {}
    /\ Cardinality(ExposedSet) >= 2
    /\ BuriedSet # {}
    /\ \E v \in SolventSet : v[1] = 0

\* C3's rule: p >= 5, or p = 4 with the two zero bits on one axis.
BuriedRule(O) ==
    LET p == Cardinality({ b \in 1..6 : O[b] = 1 })
        zeros == { b \in 1..6 : O[b] = 0 }
    IN  \/ p >= 5
        \/ p = 4 /\ zeros \in { {1, 2}, {3, 4}, {5, 6} }

\* C3: for every 6-bit occlusion vector with p ones, is_buried is true iff
\* p >= 5, or p = 4 and the two zero bits are the two directions of one axis;
\* the voxel just tested went to the buried list iff that holds of its vector.
IsBuriedRule ==
    Tested =>
         /\ \A O \in [1..6 -> {0, 1}] : is_buried(O) <=> BuriedRule(O)
         /\ (query_voxel \in Range(buried_list)) <=> BuriedRule(occluded_dimensions)
         /\ (query_voxel \in Range(exposed_list)) <=> ~ BuriedRule(occluded_dimensions)

\* A voxel with four occluded directions, open along the two directions of
\* one axis, was tested and counted as buried.
IsBuriedRuleWitness ==
    /\ Tested
    /\ occluded_dimensions = << 1, 1, 0, 0, 1, 1 >>
    /\ query_voxel \in Range(buried_list)

\* Some protein voxel lies in the column of q along the given axis, on the
\* given side (-1: smaller coordinate, 1: larger coordinate).
ProteinBeyond(q, axis, side) ==
    \E v \in VoxelSet(voxel_grid_dimensions) :
        /\ binary_voxel_array[v] # 0
        /\ \A a \in 1..3 : a # axis => v[a] = q[a]
        /\ IF side < 0 THEN v[axis] < q[axis] ELSE v[axis] > q[axis]

\* C4: for the empty voxel q tested, the x- bit is set iff some protein voxel
\* (i', j, k) has i' < i, the x+ bit iff some has i' > i, and likewise the y
\* and z bits; a column with no protein voxel gives 0 for both of its bits.
OcclusionBits ==
    Tested =>
        /\ binary_voxel_array[query_voxel] = 0
        /\ occluded_dimensions \in [1..6 -> {0, 1}]
        /\ \A axis \in 1..3 :
             /\ occluded_dimensions[2 * axis - 1] = 1 <=> ProteinBeyond(query_voxel, axis, -1)
             /\ occluded_dimensions[2 * axis] = 1 <=> ProteinBeyond(query_voxel, axis, 1)

\* A voxel occluded on the x- side only among x, on the y+ side only among y.
OcclusionBitsWitness ==
    /\ Tested
    /\ occluded_dimensions[1] = 1
    /\ occluded_dimensions[2] = 0
    /\ occluded_dimensions[3] = 0
    /\ occluded_dimensions[4] = 1

\* C5: every returned group is a maximal 6-connected component of the buried
\* set: any two of its voxels are joined by a path of its voxels with steps of
\* Manhattan distance 1, and no buried voxel outside it is at Manhattan
\* distance 1 from one of its voxels.
GroupsAreComponents ==
    pc = "done" =>
        \A g \in PoreGroups \cup CavityGroups :
            /\ SixConnected(g.voxels)
            /\ \A v \in g.voxels : SixNeighbours(v) \cap (BuriedSet \ g.voxels) = {}

\* Two groups, one of them bent (not on a line), and two buried voxels that
\* touch only by a corner.
GroupsAreComponentsWitness ==
    /\ pc = "done"
    /\ Cardinality(PoreGroups \cup CavityGroups) >= 2
    /\ \E g \in PoreGroups \cup CavityGroups :
         /\ Cardinality(g.voxels) >= 3
         /\ \E u, v \in g.voxels : u[1] # v[1] /\ u[2] # v[2]
    /\ \E u, v \in BuriedSet :
         /\ Abs(u[1] - v[1]) = 1 /\ Abs(u[2] - v[2]) = 1
         /\ \A g \in PoreGroups \cup CavityGroups : ~ ({u, v} \subseteq g.voxels)

\* C6: a component whose extended surface set D' is not empty is a cavity iff
\* D' is one 6-connected component and a pore iff D' splits into two or more,
\* whatever element each search starts from.
PoreIffSurfaceSplits ==
    pc = "done" =>
        /\ \A g \in PoreGroups :
             ExtendedSurface(g.voxels) # {} /\ ~ SixConnected(ExtendedSurface(g.voxels))
        /\ \A g \in CavityGroups :
             ExtendedSurface(g.voxels) # {} => SixConnected(ExtendedSurface(g.voxels))

\* A pore whose D' is larger than its D, beside a cavity that has a surface.
PoreIffSurfaceSplitsWitness ==
    /\ pc = "done"
    /\ \E g \in PoreGroups : ExtendedSurface(g.voxels) # DirectSurface(g.voxels)
    /\ \E g \in CavityGroups : DirectSurface(g.voxels) # {}

\* C7: a buried component whose extended surface set is empty is occluded: it
\* is reported neither as a pore nor as a cavity, and adds nothing to the
\* cavity count or the cavity volumes.
OccludedNotReported ==
    pc = "done" =>
        \A g \in PoreGroups \cup CavityGroups : ExtendedSurface(g.voxels) # {}

\* C8: the 5 x 5 x 5 block with a straight tunnel of 5 empty voxels along z
\* is exactly 1 pore of volume 5.0 and 0 cavities.
TunnelIsOnePore ==
    Finished(TunnelDims, TunnelArray) =>
        /\ DOMAIN pores = {0}
        /\ pores[0].voxels = TunnelVoxels
        /\ pores[0].volume = 5
        /\ DOMAIN cavities = {}

ReferenceComponents == { Grow(BuriedSet, {v}) : v \in BuriedSet }

LeastIndex(P) ==
    LET indices == { LinearIndex(v, voxel_grid_dimensions) : v \in P }
    IN  CHOOSE m \in indices : \A n \in indices : m <= n

SurfaceSplits(P) ==
    ExtendedSurface(P) # {} /\ ~ SixConnected(ExtendedSurface(P))

\* The groups of the reference run with the given label, by id.
ReferenceGroups(kind) ==
    LET mine == { P \in ReferenceComponents : SurfaceSplits(P) <=> (kind = "pore") }
    IN  [ id \in 0..(Cardinality(mine) - 1) |->
            LET P == CHOOSE Q \in mine :
                        Cardinality({ R \in mine : LeastIndex(R) < LeastIndex(Q) }) = id
            IN  VoxelGroup(P, { LinearIndex(v, voxel_grid_dimensions) : v \in P }, kind) ]

ReferenceSorted(kind) ==
    sort_voxelgroups_by_volume(ReferenceGroups(kind),
        filter_voxelgroups_by_volume(ReferenceGroups(kind), min_voxels))

\* C11: for a fixed buried set, exposed set and configuration, every run gives
\* the same result whatever pop() returns: the same label for every component,
\* the same Annotation and, after sorting by descending volume with ties
\* broken by ascending original id, the same id attached to the same group.
RunsAgree ==
    pc = "annotated" =>
        /\ { g.voxels : g \in PoreGroups } = { P \in ReferenceComponents : SurfaceSplits(P) }
        /\ { g.voxels : g \in CavityGroups } = { P \in ReferenceComponents : ~ SurfaceSplits(P) }
        /\ annotation = Annotation(ReferenceSorted("pore"), ReferenceSorted("cavity"))
        /\ sorted_pores = ReferenceSorted("pore")
        /\ sorted_cavities = ReferenceSorted("cavity")

\* Every voxel group the analysis holds.
AllGroups ==
    { protein_voxels, solvent_voxels, exposed_voxels, buried_voxels }
        \cup PoreGroups \cup CavityGroups
        \cup { sorted_pores[k] : k \in DOMAIN sorted_pores }
        \cup { sorted_cavities[k] : k \in DOMAIN sorted_cavities }

\* C12: every voxel group has volume = num_voxels * S^3, S being the voxel
\* edge configured for the analysis (the default, or the resolution set on the
\* command line before the analysis starts), the same S that the surface
\* padding and the voxelization use.
VolumeUsesConfiguredEdge ==
    pc \notin {"main", "split"} =>
        \A g \in AllGroups :
            \A S \in { utils_VOXEL_SIZE, PaddingEdge, VoxelizationEdge } :
                g.volume = g.num_voxels * S * S * S

\* An iteration of the outer loop of get_pores_and_cavities ends here.
IterationEnds == pc = "bfs" /\ caller = "labelling" /\ pc' = "is_pore"

\* get_pores_and_cavities is running.
InPoresAndCavities == pc \in {"pores_cavities", "loop", "bfs", "is_pore"}

\* A natural number that every step of get_pores_and_cavities makes smaller:
\* the indices not yet agglomerated weigh most, then the place in the
\* iteration, then what the running search still has to look at.
Variant ==
    LET n == Len(buried_voxels.voxels)
        weight == 4 * n + 5
        left == n - Cardinality(agglomerated_indices)
        search == 2 * Cardinality(searchable_indices) + Cardinality(queue_indices)
    IN  CASE pc = "pores_cavities" -> (n + 1) * weight + 1
          [] pc = "loop" -> left * weight + 1
          [] pc = "bfs" /\ caller = "labelling" -> left * weight - (2 * n + 1) + search
          [] pc = "is_pore" -> left * weight + 2 * n + 3
          [] pc = "bfs" /\ caller = "surface" -> left * weight + 2 + search
          [] OTHER -> 0

\* C13: get_pores_and_cavities terminates (no step of it is stuck and every
\* step lowers a natural number): each iteration of its outer loop adds at
\* least one new index to the agglomerated set, every breadth_first_search
\* call (direct or through is_pore) is given a non-empty set and empties its
\* queue, and for an empty buried set the loop body never runs and the result
\* is two empty dictionaries with no error.
PoresAndCavitiesTerminates ==
    /\ [](pc # "error")
    /\ [](InPoresAndCavities => (Variant > 0 /\ ENABLED Next))
    /\ [][InPoresAndCavities => Variant' < Variant]_vars
    /\ [][IterationEnds =>
            /\ agglomerated_indices \subseteq agglomerated_indices'
            /\ agglomerated_indices' # agglomerated_indices]_vars
    /\ [][(pc # "bfs" /\ pc' = "bfs") => queue_indices' # {}]_vars
    /\ [][(pc = "bfs" /\ pc' # "bfs") => queue_indices = {}]_vars
    /\ [][(pc = "loop" /\ buried_indices = {}) =>
            pc' = "done" /\ pores' = << >> /\ cavities' = << >>]_vars

\* The same as a liveness property of the fair specification: every search
\* returns, and get_pores_and_cavities returns.
PoresAndCavitiesEventuallyReturns ==
    /\ (pc = "bfs") ~> (pc # "bfs")
    /\ (pc = "pores_cavities") ~> (pc = "done")

\* The loop has run twice or more, is_pore has searched a surface, and
\* get_pores_and_cavities has returned.
PoresAndCavitiesTerminatesWitness ==
    /\ pc = "done"
    /\ pore_id + cavity_id >= 2
    /\ pore_id >= 1

====
